---------------------------- MODULE Spec2Model ----------------------------
(***************************************************************************)
(* Model of the OTA wrapper of esp-idf-svc (src/src/ota.rs):               *)
(*   - the process-wide gate TAKEN (a bool behind a mutex) that            *)
(*     EspOta::new takes and Drop for EspOta releases;                     *)
(*   - the manager operations factory_reset and initiate_update;           *)
(*   - the update session EspOtaUpdate with write/flush/complete/abort;    *)
(*   - the firmware info loader EspFirmwareInfoLoader (LoaderSpec).        *)
(* The native ESP-IDF calls the wrapper makes (esp_ota_begin, _write,      *)
(* _end, _abort, esp_ota_set_boot_partition, esp_partition_find) are the   *)
(* environment: each returns a code drawn from the codes the call can      *)
(* return, and keeps the native table of open write handles.               *)
(***************************************************************************)
EXTENDS Naturals, Sequences, FiniteSets, TLC

\* Bounds of the model.
NumThreads == 2    \* threads that race on EspOta::new / drop
MaxHandle  == 2    \* native write handles esp_ota_begin hands out in a run
MaxBuf     == 1    \* longest buffer passed to write
MaxLoads   == 3    \* calls of load on one EspFirmwareInfoLoader
MaxChunk   == 600  \* longest chunk passed to load
NumAvrcc   == 2    \* EspAvrcc values the program makes

\* The callers. Each owns at most one EspOta at a time; a caller that asks for
\* a second manager while holding one behaves as another caller asking for it.
Threads == 1..NumThreads

VARIABLES
    TAKEN,      \* static TAKEN: the bool behind the mutex (ota.rs:24)
    mutex,      \* threads inside the critical section of TAKEN's mutex
    pc,         \* per thread: where it is in EspOta::new / drop
    session,    \* per thread: the EspOtaUpdate borrowed from its EspOta
    boot,       \* native: the boot partition
    otaOps,     \* native: the write handles that are open
    lastHandle, \* native: the last handle esp_ota_begin handed out
    factory,    \* native: whether the partition table has a factory partition
    last,       \* the call that returned last: its result and native calls
    loader,     \* EspFirmwareInfoLoader: the bytes in its heapless::Vec
    chunks,     \* the lengths of the chunks load was given, in order
    lastLoad,   \* the loader call that returned last
    CALLBACK,   \* static CALLBACK: whether the callback slot is occupied
    avrcc,      \* per EspAvrcc: whether it lives, and its `initialized` flag
    ctInit,     \* native: whether the AVRCP controller is initialised
    ctCallback, \* native: whether event_handler is the registered callback
    lastAvrc    \* the AVRCP call or event delivery that ended last

otaVars == <<TAKEN, mutex, pc, session, boot, otaOps, lastHandle, factory, last>>
loaderVars == <<loader, chunks, lastLoad>>
avrcVars == <<CALLBACK, avrcc, ctInit, ctCallback, lastAvrc>>
vars == <<TAKEN, mutex, pc, session, boot, otaOps, lastHandle, factory, last,
          loader, chunks, lastLoad,
          CALLBACK, avrcc, ctInit, ctCallback, lastAvrc>>

----------------------------------------------------------------------------
\* Partitions and result codes.

NULL == "null"
OtaParts == {"ota_0", "ota_1"}
FactoryPart == "factory"

ESP_OK == "ESP_OK"
ESP_FAIL == "ESP_FAIL"
ESP_ERR_INVALID_STATE == "ESP_ERR_INVALID_STATE"
ESP_ERR_NOT_SUPPORTED == "ESP_ERR_NOT_SUPPORTED"
ESP_ERR_NOT_FOUND == "ESP_ERR_NOT_FOUND"

\* A panic (unwrap of None, unreachable!) in place of a result.
PANIC == "panic"

\* esp_ota_img_states_t: the values get_state names, and one it does not.
ImgStates ==
    {"ESP_OTA_IMG_NEW", "ESP_OTA_IMG_PENDING_VERIFY", "ESP_OTA_IMG_VALID",
     "ESP_OTA_IMG_INVALID", "ESP_OTA_IMG_ABORTED", "ESP_OTA_IMG_UNDEFINED",
     "other"}

\* struct EspOtaUpdate: the two fields, and whether the value is alive.
\* boot0 records the boot partition at the time the session was opened,
\* handle0 the handle esp_ota_begin gave it and ended whether an esp_ota_end or
\* esp_ota_abort on that handle has succeeded (history, not program state).
NoSession ==
    [live |-> FALSE, update_partition |-> NULL, update_handle |-> 0,
     boot0 |-> NULL, handle0 |-> 0, ended |-> FALSE]

\* What a call returned: arg is the length of the buffer it was given, rc is
\* ESP_OK or the error, ret a returned count, val a returned bool or slot state,
\* calls the native calls it made in order.
NoCall == [op |-> "none", t |-> 0, arg |-> 0, rc |-> ESP_OK, ret |-> 0,
           val |-> "none", calls |-> <<>>, pre |-> NoSession, preBoot |-> NULL]

\* A native call: its argument, what it returned, and what it wrote through an
\* out-pointer.
CallOut(fn, arg, rc, out) == [fn |-> fn, arg |-> arg, rc |-> rc, out |-> out]

Call(fn, arg, rc) == CallOut(fn, arg, rc, "none")

Returned(op, t, rc, ret, calls) ==
    [op |-> op, t |-> t, arg |-> 0, rc |-> rc, ret |-> ret, val |-> "none",
     calls |-> calls, pre |-> session[t], preBoot |-> boot]

ReturnedVal(op, t, rc, val, calls) ==
    [Returned(op, t, rc, 0, calls) EXCEPT !.val = val]

----------------------------------------------------------------------------
\* The native side (ESP-IDF), as far as the wrapper observes it.

\* esp_ota_begin(partition, ..): a null partition is refused.
esp_ota_begin_rc(partition) ==
    IF partition = NULL THEN {"ESP_ERR_INVALID_ARG"}
    ELSE {ESP_OK, "ESP_ERR_NO_MEM"}

\* esp_ota_write(handle, ..): a handle that is not open is refused.
esp_ota_write_rc(handle) ==
    IF handle \in otaOps THEN {ESP_OK, "ESP_ERR_FLASH_OP_FAIL"}
    ELSE {"ESP_ERR_INVALID_ARG"}

\* esp_ota_end(handle): releases the handle whether or not the image is valid.
esp_ota_end_rc(handle) ==
    IF handle \in otaOps THEN {ESP_OK, "ESP_ERR_OTA_VALIDATE_FAILED"}
    ELSE {"ESP_ERR_NOT_FOUND"}

\* esp_ota_abort(handle): releases the handle.
esp_ota_abort_rc(handle) ==
    IF handle \in otaOps THEN {ESP_OK} ELSE {"ESP_ERR_NOT_FOUND"}

\* esp_ota_set_boot_partition(partition)
esp_ota_set_boot_partition_rc(partition) ==
    IF partition = NULL THEN {"ESP_ERR_INVALID_ARG"}
    ELSE {ESP_OK, "ESP_ERR_OTA_SELECT_INFO_INVALID"}

\* esp_ota_get_next_update_partition(NULL): a slot, or null when there is none.
esp_ota_get_next_update_partition == OtaParts \cup {NULL}

\* esp_ota_get_state_partition(partition, &mut state)
esp_ota_get_state_partition_rc ==
    {ESP_OK, ESP_ERR_NOT_FOUND, ESP_ERR_NOT_SUPPORTED, "ESP_ERR_INVALID_ARG"}

\* esp_ota_get_partition_description(partition, &mut app_desc)
esp_ota_get_partition_description_rc ==
    {ESP_OK, ESP_ERR_NOT_FOUND, "ESP_ERR_INVALID_SIZE"}

----------------------------------------------------------------------------
\* No loader call has returned yet.
NoLoad == [op |-> "none", n |-> 0, result |-> "none", info |-> <<>>,
           pre |-> <<>>]

\* The EspAvrcc values. `set` records that this value's initialize() is the
\* one that occupied CALLBACK (history, not program state).
Avrccs == 1..NumAvrcc

NoAvrcc == [live |-> FALSE, initialized |-> FALSE, set |-> FALSE]

\* No AVRCP call has ended yet.
NoAvrcCall == [op |-> "none", a |-> 0, rc |-> ESP_OK, calls |-> <<>>,
               pre |-> NoAvrcc, event |-> "none", param |-> [null |-> TRUE],
               result |-> [tag |-> "none"], delivered |-> FALSE]

Init ==
    /\ TAKEN = FALSE
    /\ mutex = {}
    /\ pc = [t \in Threads |-> "idle"]
    /\ session = [t \in Threads |-> NoSession]
    /\ factory \in BOOLEAN
    /\ boot \in OtaParts \cup (IF factory THEN {FactoryPart} ELSE {})
    /\ otaOps = {}
    /\ lastHandle = 0
    /\ last = NoCall
    /\ loader = <<>>
    /\ chunks = <<>>
    /\ lastLoad = NoLoad
    /\ CALLBACK = FALSE
    /\ avrcc = [a \in Avrccs |-> NoAvrcc]
    /\ ctInit = FALSE
    /\ ctCallback = FALSE
    /\ lastAvrc = NoAvrcCall

----------------------------------------------------------------------------
\* The gate: EspOta::new and Drop for EspOta.

\* A lock that excludes nobody.
lock_no_exclusion(t) == TRUE

\* TAKEN.lock(): blocks until no other thread is in the critical section.
lock(t) == mutex = {}

\* EspOta::new, `let mut taken = TAKEN.lock();`
NewLock(t) ==
    /\ pc[t] = "idle"
    /\ lock(t)
    /\ mutex' = mutex \cup {t}
    /\ pc' = [pc EXCEPT ![t] = "new_locked"]
    /\ UNCHANGED <<TAKEN, session, boot, otaOps, lastHandle, factory, last>>
    /\ UNCHANGED <<loaderVars, avrcVars>>

\* EspOta::new, `if *taken { return Err(..) }`
NewCheck(t) ==
    /\ pc[t] = "new_locked"
    /\ pc' = [pc EXCEPT ![t] = IF TAKEN THEN "new_err" ELSE "new_store"]
    /\ UNCHANGED <<TAKEN, mutex, session, boot, otaOps, lastHandle, factory, last>>
    /\ UNCHANGED <<loaderVars, avrcVars>>

\* EspOta::new, `*taken = true;`
NewStore(t) ==
    /\ pc[t] = "new_store"
    /\ TAKEN' = TRUE
    /\ pc' = [pc EXCEPT ![t] = "new_ok"]
    /\ UNCHANGED <<mutex, session, boot, otaOps, lastHandle, factory, last>>
    /\ UNCHANGED <<loaderVars, avrcVars>>

\* A new() that hands its caller a manager even when the gate was taken.
new_value_always(p) == "holding"

\* What the caller of new() has afterwards: an EspOta from `Ok(Self(..))`, or
\* nothing from `Err(..)`.
new_value(p) == IF p = "new_ok" THEN "holding" ELSE "idle"

\* EspOta::new returns: the guard is dropped, the caller gets Ok(Self) or Err.
NewReturn(t) ==
    /\ pc[t] \in {"new_ok", "new_err"}
    /\ mutex' = mutex \ {t}
    /\ pc' = [pc EXCEPT ![t] = new_value(pc[t])]
    /\ last' = Returned("new", t,
                        IF pc[t] = "new_ok" THEN ESP_OK ELSE ESP_ERR_INVALID_STATE,
                        0, <<>>)
    /\ UNCHANGED <<TAKEN, session, boot, otaOps, lastHandle, factory>>
    /\ UNCHANGED <<loaderVars, avrcVars>>

\* A session that does not borrow the manager.
NotBorrowed(t) == FALSE

\* initiate_update(&mut self) -> EspOtaUpdate<'_>: while the session lives the
\* manager is mutably borrowed and can be neither used nor dropped.
Borrowed(t) == session[t].live

\* Drop for EspOta, `TAKEN.lock()`
DropLock(t) ==
    /\ pc[t] = "holding"
    /\ ~Borrowed(t)
    /\ lock(t)
    /\ mutex' = mutex \cup {t}
    /\ pc' = [pc EXCEPT ![t] = "drop_locked"]
    /\ UNCHANGED <<TAKEN, session, boot, otaOps, lastHandle, factory, last>>
    /\ UNCHANGED <<loaderVars, avrcVars>>

\* A drop that leaves the flag as it is.
DropValueKept == TAKEN

\* The value Drop for EspOta stores in TAKEN.
DropValue == FALSE

\* Drop for EspOta, `*TAKEN.lock() = false;` and the guard's release.
DropStore(t) ==
    /\ pc[t] = "drop_locked"
    /\ TAKEN' = DropValue
    /\ mutex' = mutex \ {t}
    /\ pc' = [pc EXCEPT ![t] = "idle"]
    /\ last' = Returned("drop", t, ESP_OK, 0, <<>>)
    /\ UNCHANGED <<session, boot, otaOps, lastHandle, factory>>
    /\ UNCHANGED <<loaderVars, avrcVars>>

\* The threads that own a live EspOta value.
Live ==
    {t \in Threads :
        pc[t] \in {"new_ok", "holding", "panicked", "drop_locked"}}

----------------------------------------------------------------------------
\* The manager's operations (impl EspOta). A thread calls them on the EspOta
\* it owns; those taking &mut self need the manager not to be borrowed.

Ok(partition) == [rc |-> ESP_OK, partition |-> partition]
Err(rc) == [rc |-> rc, partition |-> NULL]

\* A lookup that reports a missing factory partition as a null partition.
get_factory_partition_null ==
    IF ~factory THEN Ok(NULL) ELSE Ok(FactoryPart)

\* EspOta::get_factory_partition: esp_partition_find gives a null iterator when
\* the table has no factory partition, else esp_partition_get gives the partition.
get_factory_partition ==
    IF ~factory THEN Err(ESP_ERR_NOT_SUPPORTED) ELSE Ok(FactoryPart)

\* `self.get_factory_partition().map(|factory| !factory.is_null())`: the
\* closure is applied to an Ok value only, an Err is passed on as it is.
is_factory_reset_supported_result(f) ==
    IF f.rc = ESP_OK
    THEN [rc |-> ESP_OK, val |-> IF f.partition # NULL THEN "true" ELSE "false"]
    ELSE [rc |-> f.rc, val |-> "none"]

\* EspOta::is_factory_reset_supported(&self)
is_factory_reset_supported(t) ==
    /\ pc[t] = "holding"
    /\ ~Borrowed(t)
    /\ LET r == is_factory_reset_supported_result(get_factory_partition) IN
       last' = ReturnedVal("is_factory_reset_supported", t, r.rc, r.val, <<>>)
    /\ UNCHANGED <<TAKEN, mutex, pc, session, boot, otaOps, lastHandle, factory>>
    /\ UNCHANGED <<loaderVars, avrcVars>>

\* A match that sends an aborted image to the default arm, and a sentinel to
\* the error path.
get_state_aborted_unknown(err, state) ==
    IF err = ESP_ERR_NOT_FOUND THEN [rc |-> ESP_OK, state |-> "Unknown"]
    ELSE IF err # ESP_OK THEN [rc |-> err, state |-> "none"]
    ELSE [rc |-> ESP_OK,
          state |->
            CASE state \in {"ESP_OTA_IMG_NEW", "ESP_OTA_IMG_PENDING_VERIFY"}
                   -> "Unverified"
              [] state = "ESP_OTA_IMG_VALID" -> "Valid"
              [] state = "ESP_OTA_IMG_INVALID" -> "Invalid"
              [] OTHER -> "Unknown"]

\* EspOta::get_state, given what esp_ota_get_state_partition returned (err) and
\* wrote (state).
get_state(err, state) ==
    IF err = ESP_ERR_NOT_FOUND THEN [rc |-> ESP_OK, state |-> "Unknown"]
    ELSE IF err = ESP_ERR_NOT_SUPPORTED THEN [rc |-> ESP_OK, state |-> "Factory"]
    ELSE IF err # ESP_OK THEN [rc |-> err, state |-> "none"]
    ELSE [rc |-> ESP_OK,
          state |->
            CASE state \in {"ESP_OTA_IMG_NEW", "ESP_OTA_IMG_PENDING_VERIFY"}
                   -> "Unverified"
              [] state = "ESP_OTA_IMG_VALID" -> "Valid"
              [] state \in {"ESP_OTA_IMG_INVALID", "ESP_OTA_IMG_ABORTED"}
                   -> "Invalid"
              [] state = "ESP_OTA_IMG_UNDEFINED" -> "Unknown"
              [] OTHER -> "Unknown"]

\* EspOta::get_firmware_info, given what esp_ota_get_partition_description
\* returned: ESP_ERR_NOT_FOUND is Ok(None), another error is the error.
get_firmware_info(err) ==
    IF err = ESP_ERR_NOT_FOUND THEN [rc |-> ESP_OK, firmware |-> "None"]
    ELSE IF err # ESP_OK THEN [rc |-> err, firmware |-> "none"]
    ELSE [rc |-> ESP_OK, firmware |-> "Some"]

\* EspOta::get_slot(partition): the state first and, if that is Ok, the
\* firmware info; the first error is returned.
get_slot(op, t, lookup, partition) ==
    \E err \in esp_ota_get_state_partition_rc :
    \E state \in IF err = ESP_OK THEN ImgStates ELSE {"ESP_OTA_IMG_NEW"} :
        LET st == get_state(err, state)
            c1 == CallOut("esp_ota_get_state_partition", partition, err, state)
        IN
        IF st.rc # ESP_OK
        THEN last' = Returned(op, t, st.rc, 0, <<lookup, c1>>)
        ELSE \E ferr \in esp_ota_get_partition_description_rc :
             LET fw == get_firmware_info(ferr)
                 c2 == Call("esp_ota_get_partition_description", partition, ferr)
             IN
             last' = IF fw.rc # ESP_OK
                     THEN Returned(op, t, fw.rc, 0, <<lookup, c1, c2>>)
                     ELSE ReturnedVal(op, t, ESP_OK, st.state, <<lookup, c1, c2>>)

\* EspOta::get_update_slot(&self): `.as_ref().unwrap()` panics on the null
\* pointer that esp_ota_get_next_update_partition returns when there is no slot.
get_update_slot(t) ==
    /\ pc[t] = "holding"
    /\ ~Borrowed(t)
    /\ \E partition \in esp_ota_get_next_update_partition :
       LET lookup == Call("esp_ota_get_next_update_partition", NULL, partition)
       IN
       IF partition = NULL
       THEN /\ last' = Returned("get_update_slot", t, PANIC, 0, <<lookup>>)
            /\ pc' = [pc EXCEPT ![t] = "panicked"]
       ELSE /\ get_slot("get_update_slot", t, lookup, partition)
            /\ UNCHANGED pc
    /\ UNCHANGED <<TAKEN, mutex, session, boot, otaOps, lastHandle, factory>>
    /\ UNCHANGED <<loaderVars, avrcVars>>

\* The application partitions of the table.
AppParts == OtaParts \cup (IF factory THEN {FactoryPart} ELSE {})

\* esp_ota_get_boot_partition: the configured boot partition, or NULL when the
\* OTA data cannot be read.
esp_ota_get_boot_partition == {boot, NULL}

\* esp_ota_get_running_partition: the partition of the running application.
esp_ota_get_running_partition == AppParts

\* esp_ota_get_last_invalid_partition: NULL when no partition is invalid.
esp_ota_get_last_invalid_partition == OtaParts \cup {NULL}

\* EspOta::get_boot_slot(&self)
get_boot_slot(t) ==
    /\ pc[t] = "holding"
    /\ ~Borrowed(t)
    /\ \E partition \in esp_ota_get_boot_partition :
       LET lookup == Call("esp_ota_get_boot_partition", "none", partition) IN
       IF partition = NULL
       THEN /\ last' = Returned("get_boot_slot", t, PANIC, 0, <<lookup>>)
            /\ pc' = [pc EXCEPT ![t] = "panicked"]
       ELSE /\ get_slot("get_boot_slot", t, lookup, partition)
            /\ UNCHANGED pc
    /\ UNCHANGED <<TAKEN, mutex, session, boot, otaOps, lastHandle, factory>>
    /\ UNCHANGED <<loaderVars, avrcVars>>

\* EspOta::get_running_slot(&self)
get_running_slot(t) ==
    /\ pc[t] = "holding"
    /\ ~Borrowed(t)
    /\ \E partition \in esp_ota_get_running_partition :
       get_slot("get_running_slot", t,
                Call("esp_ota_get_running_partition", "none", partition),
                partition)
    /\ UNCHANGED <<TAKEN, mutex, pc, session, boot, otaOps, lastHandle, factory>>
    /\ UNCHANGED <<loaderVars, avrcVars>>

\* EspOta::get_last_invalid_slot(&self): Ok(None) when there is no such
\* partition.
get_last_invalid_slot(t) ==
    /\ pc[t] = "holding"
    /\ ~Borrowed(t)
    /\ \E partition \in esp_ota_get_last_invalid_partition :
       LET lookup == Call("esp_ota_get_last_invalid_partition", "none",
                          partition)
       IN
       IF partition = NULL
       THEN last' = ReturnedVal("get_last_invalid_slot", t, ESP_OK, "None",
                                <<lookup>>)
       ELSE get_slot("get_last_invalid_slot", t, lookup, partition)
    /\ UNCHANGED <<TAKEN, mutex, pc, session, boot, otaOps, lastHandle, factory>>
    /\ UNCHANGED <<loaderVars, avrcVars>>

\* EspOta::mark_running_slot_valid(&mut self)
mark_running_slot_valid(t) ==
    /\ pc[t] = "holding"
    /\ ~Borrowed(t)
    /\ \E rc \in {ESP_OK, ESP_FAIL} :
       last' = Returned("mark_running_slot_valid", t, rc, 0,
                 <<Call("esp_ota_mark_app_valid_cancel_rollback", "none", rc)>>)
    /\ UNCHANGED <<TAKEN, mutex, pc, session, boot, otaOps, lastHandle, factory>>
    /\ UNCHANGED <<loaderVars, avrcVars>>

\* A panic unwinds the caller's stack: the EspOta it owns is dropped, which
\* runs Drop for EspOta from its `TAKEN.lock()` on.
Unwind(t) ==
    /\ pc[t] = "panicked"
    /\ lock(t)
    /\ mutex' = mutex \cup {t}
    /\ pc' = [pc EXCEPT ![t] = "drop_locked"]
    /\ UNCHANGED <<TAKEN, session, boot, otaOps, lastHandle, factory, last>>
    /\ UNCHANGED <<loaderVars, avrcVars>>

\* EspOta::factory_reset
factory_reset(t) ==
    /\ pc[t] = "holding"
    /\ ~Borrowed(t)
    /\ LET f == get_factory_partition IN
       IF f.rc # ESP_OK
       THEN /\ last' = Returned("factory_reset", t, f.rc, 0, <<>>)
            /\ UNCHANGED boot
       ELSE \E rc \in esp_ota_set_boot_partition_rc(f.partition) :
            /\ boot' = IF rc = ESP_OK THEN f.partition ELSE boot
            /\ last' = Returned("factory_reset", t, rc, 0,
                         <<Call("esp_ota_set_boot_partition", f.partition, rc)>>)
    /\ UNCHANGED <<TAKEN, mutex, pc, session, otaOps, lastHandle, factory>>
    /\ UNCHANGED <<loaderVars, avrcVars>>

\* A session built with the handle's initial value, not the one esp_ota_begin
\* wrote.
NewUpdateDefaultHandle(partition, handle) ==
    [live |-> TRUE, update_partition |-> partition, update_handle |-> 0,
     boot0 |-> boot, handle0 |-> handle, ended |-> FALSE]

\* The EspOtaUpdate that initiate_update builds from the partition and handle.
NewUpdate(partition, handle) ==
    [live |-> TRUE, update_partition |-> partition, update_handle |-> handle,
     boot0 |-> boot, handle0 |-> handle, ended |-> FALSE]

\* esp_ota_mark_app_invalid_rollback_and_reboot: on success the chip restarts
\* and the call never returns (REBOOT); otherwise it returns a code.
REBOOT == "reboot"

\* The chip has restarted: no thread of the program runs any more.
Rebooted == \A t \in Threads : pc[t] = "rebooted"

esp_ota_mark_app_invalid_rollback_and_reboot_rc ==
    {REBOOT, ESP_OK, ESP_FAIL, "ESP_ERR_OTA_ROLLBACK_FAILED"}

\* An outcome that hands a returned ESP_OK back to the caller.
mark_invalid_outcome_any(rc) == rc

\* `if let Err(err) = esp!(..) { err } else { unreachable!() }`
mark_invalid_outcome(rc) == IF rc = ESP_OK THEN PANIC ELSE rc

\* EspOta::mark_running_slot_invalid_and_reboot(&mut self)
mark_running_slot_invalid_and_reboot(t) ==
    /\ pc[t] = "holding"
    /\ ~Borrowed(t)
    /\ \E rc \in esp_ota_mark_app_invalid_rollback_and_reboot_rc :
       LET call == <<Call("esp_ota_mark_app_invalid_rollback_and_reboot",
                          "none", rc)>>
           op   == "mark_running_slot_invalid_and_reboot"
       IN
       IF rc = REBOOT
       THEN \* the restart ends every thread and clears the memory; the
            \* rollback selects the partition to boot next
            /\ pc' = [u \in Threads |-> "rebooted"]
            /\ TAKEN' = FALSE
            /\ mutex' = {}
            /\ session' = [u \in Threads |-> NoSession]
            /\ otaOps' = {}
            /\ boot' \in OtaParts \cup (IF factory THEN {FactoryPart} ELSE {})
            /\ last' = Returned(op, t, REBOOT, 0, call)
       ELSE LET out == mark_invalid_outcome(rc) IN
            /\ pc' = IF out = PANIC THEN [pc EXCEPT ![t] = "panicked"] ELSE pc
            /\ last' = Returned(op, t, out, 0, call)
            /\ UNCHANGED <<TAKEN, mutex, session, otaOps, boot>>
    /\ UNCHANGED <<lastHandle, factory>>
    /\ UNCHANGED <<loaderVars, avrcVars>>

\* EspOta::initiate_update: the partition is not checked for null; esp_ota_begin
\* is. The native side hands out MaxHandle handles and then is out of memory.
initiate_update(t) ==
    /\ pc[t] = "holding"
    /\ ~Borrowed(t)
    /\ \E partition \in esp_ota_get_next_update_partition :
       \E rc \in esp_ota_begin_rc(partition) :
       /\ rc = ESP_OK => lastHandle < MaxHandle
       /\ IF rc = ESP_OK
          THEN /\ lastHandle' = lastHandle + 1
               /\ otaOps' = otaOps \cup {lastHandle + 1}
               /\ session' = [session EXCEPT
                                ![t] = NewUpdate(partition, lastHandle + 1)]
          ELSE UNCHANGED <<lastHandle, otaOps, session>>
       /\ last' = Returned("initiate_update", t, rc, 0,
                           <<Call("esp_ota_begin", partition, rc)>>)
    /\ UNCHANGED <<TAKEN, mutex, pc, boot, factory>>
    /\ UNCHANGED <<loaderVars, avrcVars>>

----------------------------------------------------------------------------
\* The update session (impl EspOtaUpdate).

\* A check that lets every call through.
check_write_always(s) == TRUE

\* EspOtaUpdate::check_write: Ok iff update_partition is not null.
check_write(s) == s.update_partition # NULL

\* A close that forgets the handle.
ClearedPartitionOnly(s) == [s EXCEPT !.update_partition = NULL]

\* `self.update_partition = core::ptr::null(); self.update_handle = 0;`
Cleared(s) == [s EXCEPT !.update_partition = NULL, !.update_handle = 0]

\* A complete that makes the partition booted when the session opened the boot
\* partition again.
set_boot_arg_previous(s) == s.boot0

\* The partition complete passes to esp_ota_set_boot_partition.
set_boot_arg(s) == s.update_partition

\* A write that reports one byte less than it was given.
write_ok_partial(n) == IF n > 0 THEN n - 1 ELSE 0

\* `Ok(buf.len())` with buf.len() = n
write_ok(n) == n

\* EspOtaUpdate::write(buf) with buf.len() = n
write(t, n) ==
    /\ pc[t] = "holding"
    /\ session[t].live
    /\ LET s == session[t]
           ret(rc, size, calls) ==
               [Returned("write", t, rc, size, calls) EXCEPT !.arg = n]
       IN
       IF ~check_write(s)
       THEN last' = ret(ESP_FAIL, 0, <<>>)
       ELSE \E rc \in esp_ota_write_rc(s.update_handle) :
            last' = ret(rc, IF rc = ESP_OK THEN write_ok(n) ELSE 0,
                        <<Call("esp_ota_write", s.update_handle, rc)>>)
    /\ UNCHANGED <<TAKEN, mutex, pc, session, boot, otaOps, lastHandle, factory>>
    /\ UNCHANGED <<loaderVars, avrcVars>>

\* EspOtaUpdate::flush
flush(t) ==
    /\ pc[t] = "holding"
    /\ session[t].live
    /\ last' = Returned("flush", t,
                        IF check_write(session[t]) THEN ESP_OK ELSE ESP_FAIL,
                        0, <<>>)
    /\ UNCHANGED <<TAKEN, mutex, pc, session, boot, otaOps, lastHandle, factory>>
    /\ UNCHANGED <<loaderVars, avrcVars>>

\* A call whose error is dropped instead of returned.
proceeds_always(rc) == TRUE

\* `esp!(..)?`: the function goes on only when the native call returned ESP_OK
proceeds(rc) == rc = ESP_OK

\* EspOtaUpdate::complete: each `?` returns early, before the fields are cleared.
complete(t) ==
    /\ pc[t] = "holding"
    /\ session[t].live
    /\ LET s == session[t]
           ended == [s EXCEPT !.ended = TRUE]
           end(rc) == Call("esp_ota_end", s.update_handle, rc)
           set(rc) == Call("esp_ota_set_boot_partition", set_boot_arg(s), rc)
       IN
       IF ~check_write(s)
       THEN /\ last' = Returned("complete", t, ESP_FAIL, 0, <<>>)
            /\ UNCHANGED <<session, boot, otaOps>>
       ELSE \E rcEnd \in esp_ota_end_rc(s.update_handle) :
            /\ otaOps' = otaOps \ {s.update_handle}
            /\ IF ~proceeds(rcEnd)
               THEN /\ last' = Returned("complete", t, rcEnd, 0, <<end(rcEnd)>>)
                    /\ UNCHANGED <<session, boot>>
               ELSE \E rcSet \in esp_ota_set_boot_partition_rc(set_boot_arg(s)) :
                    /\ last' = Returned("complete", t, rcSet, 0,
                                        <<end(rcEnd), set(rcSet)>>)
                    /\ IF ~proceeds(rcSet)
                       THEN /\ session' = [session EXCEPT ![t] = ended]
                            /\ UNCHANGED boot
                       ELSE /\ boot' = set_boot_arg(s)
                            /\ session' = [session EXCEPT ![t] = Cleared(ended)]
    /\ UNCHANGED <<TAKEN, mutex, pc, lastHandle, factory>>
    /\ UNCHANGED <<loaderVars, avrcVars>>

\* An abort that clears the session whatever esp_ota_abort returned.
aborted_always(s, rc) == Cleared(s)

\* The session after abort's `esp!(esp_ota_abort(..))?`: cleared when the call
\* succeeded, as it was when the `?` returned the error.
aborted(s, rc) ==
    IF proceeds(rc) THEN Cleared([s EXCEPT !.ended = TRUE]) ELSE s

\* EspOtaUpdate::abort
abort(t) ==
    /\ pc[t] = "holding"
    /\ session[t].live
    /\ LET s == session[t] IN
       IF ~check_write(s)
       THEN /\ last' = Returned("abort", t, ESP_FAIL, 0, <<>>)
            /\ UNCHANGED <<session, otaOps>>
       ELSE \E rc \in esp_ota_abort_rc(s.update_handle) :
            /\ otaOps' = otaOps \ {s.update_handle}
            /\ last' = Returned("abort", t, rc, 0,
                                <<Call("esp_ota_abort", s.update_handle, rc)>>)
            /\ session' = [session EXCEPT ![t] = aborted(s, rc)]
    /\ UNCHANGED <<TAKEN, mutex, pc, boot, lastHandle, factory>>
    /\ UNCHANGED <<loaderVars, avrcVars>>

\* The session goes out of scope. EspOtaUpdate has no Drop impl: the value is
\* gone, the borrow of the manager ends, and no native call is made.
drop_update(t) ==
    /\ pc[t] = "holding"
    /\ session[t].live
    /\ session' = [session EXCEPT ![t] = NoSession]
    /\ last' = Returned("drop_update", t, ESP_OK, 0, <<>>)
    /\ UNCHANGED <<TAKEN, mutex, pc, boot, otaOps, lastHandle, factory>>
    /\ UNCHANGED <<loaderVars, avrcVars>>

----------------------------------------------------------------------------
----------------------------------------------------------------------------
\* EspFirmwareInfoLoader. A byte is named by its place in the stream of all
\* the bytes load has been given: the chunk of a load holds the bytes
\* Sum(chunks) + 1 .. Sum(chunks) + n.

size_of_esp_image_header_t         == 24
size_of_esp_image_segment_header_t == 8
size_of_esp_app_desc_t             == 256

\* heapless::Vec<u8, 512>
capacity == 512

min(a, b) == IF a <= b THEN a ELSE b

RECURSIVE Sum(_)
Sum(lens) == IF lens = <<>> THEN 0 ELSE Head(lens) + Sum(Tail(lens))

\* The lengths of the chunks given to load: the empty chunk, a single byte,
\* each part of the image head, one byte less than all of it, all of it, the
\* capacity, and a chunk longer than the capacity.
ChunkLens ==
    LET all == size_of_esp_image_header_t + size_of_esp_image_segment_header_t
               + size_of_esp_app_desc_t
    IN {0, 1, size_of_esp_image_header_t, size_of_esp_image_segment_header_t,
        size_of_esp_app_desc_t, all - 1, all, capacity, MaxChunk}

\* A loader that counts itself loaded only when its buffer is full.
is_loaded_when_full(buf) == Len(buf) >= capacity

\* EspFirmwareInfoLoader::is_loaded
is_loaded(buf) ==
    Len(buf) >= size_of_esp_image_header_t
                + size_of_esp_image_segment_header_t
                + size_of_esp_app_desc_t

\* A load that takes the whole chunk, whatever room is left.
take_all(len, remaining) == len

\* `min(buf.len(), remaining)`: how much of the chunk load takes
take(len, remaining) == min(len, remaining)

\* A load that keeps the end of the chunk instead of its front.
extended_from_end(buf, chunk) ==
    IF Len(buf) >= size_of_esp_image_header_t
                   + size_of_esp_image_segment_header_t
                   + size_of_esp_app_desc_t
    THEN buf
    ELSE LET n == min(Len(chunk), capacity - Len(buf)) IN
         buf \o SubSeq(chunk, Len(chunk) - n + 1, Len(chunk))

\* The buffer after load(chunk): `extend_from_slice(&buf[..take])` unless the
\* loader is loaded already or no room remains.
extended(buf, chunk) ==
    IF ~is_loaded(buf)
    THEN LET remaining == capacity - Len(buf) IN
         IF remaining > 0
         THEN buf \o SubSeq(chunk, 1, take(Len(chunk), remaining))
         ELSE buf
    ELSE buf

\* EspFirmwareInfoLoader::load(buf) with buf.len() = n
load(n) ==
    /\ Len(chunks) < MaxLoads
    /\ LET chunk == [i \in 1..n |-> Sum(chunks) + i] IN
       /\ loader' = extended(loader, chunk)
       /\ chunks' = Append(chunks, n)
       /\ lastLoad' = [op |-> "load", n |-> n,
                       result |-> IF is_loaded(loader') THEN "Loaded"
                                  ELSE "LoadMore",
                       info |-> <<>>, pre |-> loader]
    /\ UNCHANGED <<otaVars, avrcVars>>

\* A slice that starts at the head of the buffer.
app_desc_slice_at_start(buf) == SubSeq(buf, 1, size_of_esp_app_desc_t)

\* `&self.0[header + segment header .. header + segment header + app desc]`
app_desc_slice(buf) ==
    SubSeq(buf,
           size_of_esp_image_header_t + size_of_esp_image_segment_header_t + 1,
           size_of_esp_image_header_t + size_of_esp_image_segment_header_t
           + size_of_esp_app_desc_t)

\* EspFirmwareInfoLoader::get_info: info is the bytes of the esp_app_desc_t
\* the FirmwareInfo is read from.
get_info ==
    /\ lastLoad' = IF is_loaded(loader)
                   THEN [op |-> "get_info", n |-> 0, result |-> ESP_OK,
                         info |-> app_desc_slice(loader), pre |-> loader]
                   ELSE [op |-> "get_info", n |-> 0,
                         result |-> "ESP_ERR_INVALID_SIZE",
                         info |-> <<>>, pre |-> loader]
    /\ UNCHANGED <<loader, chunks>>
    /\ UNCHANGED <<otaVars, avrcVars>>

LoaderInit == Init /\ ~factory /\ boot = "ota_0"

LoaderNext ==
    \/ \E n \in ChunkLens : load(n)
    \/ get_info

LoaderSpec == LoaderInit /\ [][LoaderNext]_vars

----------------------------------------------------------------------------
\* The AVRCP controller EspAvrcc (src/src/bt/avrc.rs). Native codes are named
\* by their ESP-IDF constants; "unmapped" stands for a code that is none of
\* them.

\* enum KeyCode (TryFromPrimitive): native pass-through command -> variant
KeyCode ==
       "ESP_AVRC_PT_CMD_SELECT" :> "Select"
    @@ "ESP_AVRC_PT_CMD_UP" :> "Up"
    @@ "ESP_AVRC_PT_CMD_DOWN" :> "Down"
    @@ "ESP_AVRC_PT_CMD_LEFT" :> "Left"
    @@ "ESP_AVRC_PT_CMD_RIGHT" :> "Right"
    @@ "ESP_AVRC_PT_CMD_RIGHT_UP" :> "RightUp"
    @@ "ESP_AVRC_PT_CMD_RIGHT_DOWN" :> "RightDown"
    @@ "ESP_AVRC_PT_CMD_LEFT_UP" :> "LeftUp"
    @@ "ESP_AVRC_PT_CMD_LEFT_DOWN" :> "LeftDown"
    @@ "ESP_AVRC_PT_CMD_ROOT_MENU" :> "RootMenu"
    @@ "ESP_AVRC_PT_CMD_SETUP_MENU" :> "SetupMenu"
    @@ "ESP_AVRC_PT_CMD_CONT_MENU" :> "ContentsMenu"
    @@ "ESP_AVRC_PT_CMD_FAV_MENU" :> "FavMenu"
    @@ "ESP_AVRC_PT_CMD_EXIT" :> "Exit"
    @@ "ESP_AVRC_PT_CMD_0" :> "Num0"
    @@ "ESP_AVRC_PT_CMD_1" :> "Num1"
    @@ "ESP_AVRC_PT_CMD_2" :> "Num2"
    @@ "ESP_AVRC_PT_CMD_3" :> "Num3"
    @@ "ESP_AVRC_PT_CMD_4" :> "Num4"
    @@ "ESP_AVRC_PT_CMD_5" :> "Num5"
    @@ "ESP_AVRC_PT_CMD_6" :> "Num6"
    @@ "ESP_AVRC_PT_CMD_7" :> "Num7"
    @@ "ESP_AVRC_PT_CMD_8" :> "Num8"
    @@ "ESP_AVRC_PT_CMD_9" :> "Num9"
    @@ "ESP_AVRC_PT_CMD_DOT" :> "Dot"
    @@ "ESP_AVRC_PT_CMD_ENTER" :> "Enter"
    @@ "ESP_AVRC_PT_CMD_CLEAR" :> "Clear"
    @@ "ESP_AVRC_PT_CMD_CHAN_UP" :> "ChannelUp"
    @@ "ESP_AVRC_PT_CMD_CHAN_DOWN" :> "ChannelDown"
    @@ "ESP_AVRC_PT_CMD_PREV_CHAN" :> "PreviousChannel"
    @@ "ESP_AVRC_PT_CMD_SOUND_SEL" :> "SoundSelect"
    @@ "ESP_AVRC_PT_CMD_INPUT_SEL" :> "InputSelect"
    @@ "ESP_AVRC_PT_CMD_DISP_INFO" :> "DisplayInformation"
    @@ "ESP_AVRC_PT_CMD_HELP" :> "Help"
    @@ "ESP_AVRC_PT_CMD_PAGE_UP" :> "PageUp"
    @@ "ESP_AVRC_PT_CMD_PAGE_DOWN" :> "PageDown"
    @@ "ESP_AVRC_PT_CMD_POWER" :> "Power"
    @@ "ESP_AVRC_PT_CMD_VOL_UP" :> "VolumeUp"
    @@ "ESP_AVRC_PT_CMD_VOL_DOWN" :> "VolumeDown"
    @@ "ESP_AVRC_PT_CMD_MUTE" :> "Mute"
    @@ "ESP_AVRC_PT_CMD_PLAY" :> "Play"
    @@ "ESP_AVRC_PT_CMD_STOP" :> "Stop"
    @@ "ESP_AVRC_PT_CMD_PAUSE" :> "Pause"
    @@ "ESP_AVRC_PT_CMD_RECORD" :> "Record"
    @@ "ESP_AVRC_PT_CMD_REWIND" :> "Rewind"
    @@ "ESP_AVRC_PT_CMD_FAST_FORWARD" :> "FastForward"
    @@ "ESP_AVRC_PT_CMD_EJECT" :> "Eject"
    @@ "ESP_AVRC_PT_CMD_FORWARD" :> "Forward"
    @@ "ESP_AVRC_PT_CMD_BACKWARD" :> "Backward"
    @@ "ESP_AVRC_PT_CMD_ANGLE" :> "Angle"
    @@ "ESP_AVRC_PT_CMD_SUBPICT" :> "Subpicture"
    @@ "ESP_AVRC_PT_CMD_F1" :> "F1"
    @@ "ESP_AVRC_PT_CMD_F2" :> "F2"
    @@ "ESP_AVRC_PT_CMD_F3" :> "F3"
    @@ "ESP_AVRC_PT_CMD_F4" :> "F4"
    @@ "ESP_AVRC_PT_CMD_F5" :> "F5"
    @@ "ESP_AVRC_PT_CMD_VENDOR" :> "Vendor"

\* enum ResponseCode (TryFromPrimitive)
ResponseCode ==
       "ESP_AVRC_RSP_NOT_IMPL" :> "NotImplemented"
    @@ "ESP_AVRC_RSP_ACCEPT" :> "Accepted"
    @@ "ESP_AVRC_RSP_REJECT" :> "Rejected"
    @@ "ESP_AVRC_RSP_IN_TRANS" :> "InTransition"
    @@ "ESP_AVRC_RSP_IMPL_STBL" :> "Implemented"
    @@ "ESP_AVRC_RSP_CHANGED" :> "Changed"
    @@ "ESP_AVRC_RSP_INTERIM" :> "Interim"

\* enum PlaybackStatus (TryFromPrimitive)
PlaybackStatus ==
       "ESP_AVRC_PLAYBACK_STOPPED" :> "Stopped"
    @@ "ESP_AVRC_PLAYBACK_PLAYING" :> "Playing"
    @@ "ESP_AVRC_PLAYBACK_PAUSED" :> "Paused"
    @@ "ESP_AVRC_PLAYBACK_FWD_SEEK" :> "SeekForward"
    @@ "ESP_AVRC_PLAYBACK_REV_SEEK" :> "SeekBackward"
    @@ "ESP_AVRC_PLAYBACK_ERROR" :> "Error"

\* enum BatteryStatus (TryFromPrimitive)
BatteryStatus ==
       "ESP_AVRC_BATT_NORMAL" :> "Normal"
    @@ "ESP_AVRC_BATT_WARNING" :> "Warning"
    @@ "ESP_AVRC_BATT_CRITICAL" :> "Critical"
    @@ "ESP_AVRC_BATT_EXTERNAL" :> "Charging"
    @@ "ESP_AVRC_BATT_FULL_CHARGE" :> "Charged"

\* enum NotificationType (TryFromPrimitive)
NotificationType ==
       "ESP_AVRC_RN_PLAY_STATUS_CHANGE" :> "Playback"
    @@ "ESP_AVRC_RN_TRACK_CHANGE" :> "TrackChanged"
    @@ "ESP_AVRC_RN_TRACK_REACHED_END" :> "TrackEnd"
    @@ "ESP_AVRC_RN_TRACK_REACHED_START" :> "TrackStart"
    @@ "ESP_AVRC_RN_PLAY_POS_CHANGED" :> "PlaybackPosition"
    @@ "ESP_AVRC_RN_BATTERY_STATUS_CHANGE" :> "BatteryStatus"
    @@ "ESP_AVRC_RN_SYSTEM_STATUS_CHANGE" :> "SystemStatus"
    @@ "ESP_AVRC_RN_APP_SETTING_CHANGE" :> "AppSettings"
    @@ "ESP_AVRC_RN_NOW_PLAYING_CHANGE" :> "NowPlaying"
    @@ "ESP_AVRC_RN_AVAILABLE_PLAYERS_CHANGE" :> "AvailablePlayers"
    @@ "ESP_AVRC_RN_ADDRESSED_PLAYER_CHANGE" :> "AddressedPlayer"
    @@ "ESP_AVRC_RN_UIDS_CHANGE" :> "Uuids"
    @@ "ESP_AVRC_RN_VOLUME_CHANGE" :> "Volume"

\* `T::try_from(code)` of a TryFromPrimitive enum: the variant of a code the
\* enum lists, an error for any other.
try_from(enum, code) ==
    IF code \in DOMAIN enum THEN [ok |-> TRUE, v |-> enum[code]]
    ELSE [ok |-> FALSE, v |-> "none"]

\* `.unwrap()` on a failed conversion panics.
Panicked == [tag |-> PANIC]

\* The inner match of the ESP_AVRC_CT_CHANGE_NOTIFY_EVT arm.
Notification_from(param) ==
    LET id == try_from(NotificationType, param.event_id) IN
    IF ~id.ok THEN Panicked
    ELSE IF id.v = "Playback"
    THEN LET st == try_from(PlaybackStatus, param.playback) IN
         IF st.ok
         THEN [tag |-> "Notification", kind |-> "Playback", v |-> st.v]
         ELSE Panicked
    ELSE IF id.v = "BatteryStatus"
    THEN LET st == try_from(BatteryStatus, param.batt) IN
         IF st.ok
         THEN [tag |-> "Notification", kind |-> "Battery", v |-> st.v]
         ELSE Panicked
    ELSE IF id.v = "PlaybackPosition"
    THEN [tag |-> "Notification", kind |-> "PlaybackPosition",
          v |-> param.playback]
    ELSE IF id.v = "TrackEnd"
    THEN [tag |-> "Notification", kind |-> "TrackEnded", v |-> "none"]
    ELSE IF id.v = "TrackStart"
    THEN [tag |-> "Notification", kind |-> "TrackStarted", v |-> "none"]
    ELSE [tag |-> "Notification", kind |-> id.v, v |-> "none"]

\* impl From<(esp_avrc_ct_cb_event_t, &esp_avrc_ct_cb_param_t)> for AvrccEvent
AvrccEvent_from(event, param) ==
    IF event = "ESP_AVRC_CT_CONNECTION_STATE_EVT"
    THEN [tag |-> IF param.connected THEN "Connected" ELSE "Disconnected"]
    ELSE IF event = "ESP_AVRC_CT_PASSTHROUGH_RSP_EVT"
    THEN LET key == try_from(KeyCode, param.key_code)
             rsp == try_from(ResponseCode, param.rsp_code)
         IN
         IF ~key.ok \/ ~rsp.ok THEN Panicked
         ELSE [tag |-> "Passthrough", key_code |-> key.v,
               key_pressed |-> (param.key_state = 0),
               response_code |-> rsp.v]
    ELSE IF event = "ESP_AVRC_CT_METADATA_RSP_EVT" THEN [tag |-> "Attribute"]
    ELSE IF event = "ESP_AVRC_CT_PLAY_STATUS_RSP_EVT" THEN [tag |-> "PlayStatus"]
    ELSE IF event = "ESP_AVRC_CT_CHANGE_NOTIFY_EVT" THEN Notification_from(param)
    ELSE IF event = "ESP_AVRC_CT_REMOTE_FEATURES_EVT"
    THEN [tag |-> "RemoteFeatures"]
    ELSE IF event = "ESP_AVRC_CT_GET_RN_CAPABILITIES_RSP_EVT"
    THEN [tag |-> "Capabilities"]
    ELSE IF event = "ESP_AVRC_CT_SET_ABSOLUTE_VOLUME_RSP_EVT"
    THEN [tag |-> "Volume"]
    ELSE [tag |-> "Other", raw_event |-> event]

\* The event codes the native stack delivers.
Events ==
    {"ESP_AVRC_CT_CONNECTION_STATE_EVT", "ESP_AVRC_CT_PASSTHROUGH_RSP_EVT",
     "ESP_AVRC_CT_METADATA_RSP_EVT", "ESP_AVRC_CT_PLAY_STATUS_RSP_EVT",
     "ESP_AVRC_CT_CHANGE_NOTIFY_EVT", "ESP_AVRC_CT_REMOTE_FEATURES_EVT",
     "ESP_AVRC_CT_GET_RN_CAPABILITIES_RSP_EVT",
     "ESP_AVRC_CT_SET_ABSOLUTE_VOLUME_RSP_EVT", "unmapped"}

\* `param`: the null pointer, or the fields of esp_avrc_ct_cb_param_t the
\* conversion reads. The fields an event does not use stay at their defaults.
DefaultParam ==
    [null |-> FALSE, connected |-> FALSE,
     key_code |-> "ESP_AVRC_PT_CMD_PLAY", key_state |-> 0,
     rsp_code |-> "ESP_AVRC_RSP_ACCEPT",
     event_id |-> "ESP_AVRC_RN_VOLUME_CHANGE",
     playback |-> "ESP_AVRC_PLAYBACK_PLAYING",
     batt |-> "ESP_AVRC_BATT_NORMAL"]

NullParam == [DefaultParam EXCEPT !.null = TRUE]

Params(event) ==
    {NullParam} \cup
    IF event = "ESP_AVRC_CT_CONNECTION_STATE_EVT"
    THEN {[DefaultParam EXCEPT !.connected = c] : c \in BOOLEAN}
    ELSE IF event = "ESP_AVRC_CT_PASSTHROUGH_RSP_EVT"
    THEN {[DefaultParam EXCEPT !.key_code = k, !.key_state = ks, !.rsp_code = r] :
            k \in {"ESP_AVRC_PT_CMD_PLAY", "ESP_AVRC_PT_CMD_VENDOR", "unmapped"},
            ks \in {0, 1},
            r \in {"ESP_AVRC_RSP_ACCEPT", "ESP_AVRC_RSP_INTERIM", "unmapped"}}
    ELSE IF event = "ESP_AVRC_CT_CHANGE_NOTIFY_EVT"
    THEN {[DefaultParam EXCEPT !.event_id = id, !.playback = pb, !.batt = b] :
            id \in DOMAIN NotificationType \cup {"unmapped"},
            pb \in {"ESP_AVRC_PLAYBACK_PLAYING", "unmapped"},
            b \in {"ESP_AVRC_BATT_NORMAL", "unmapped"}}
    ELSE {DefaultParam}

\* BtCallback::set: occupies the slot, or fails when it is occupied already.
CALLBACK_set_rc == IF CALLBACK THEN ESP_ERR_INVALID_STATE ELSE ESP_OK

\* BtCallback::clear: frees the slot, or fails when it is free already.
CALLBACK_clear_rc == IF CALLBACK THEN ESP_OK ELSE ESP_ERR_INVALID_STATE

\* What an AVRCP call did: the CALLBACK and native calls it made, in order.
AvrcReturned(op, a, rc, calls) ==
    [NoAvrcCall EXCEPT !.op = op, !.a = a, !.rc = rc, !.calls = calls,
                       !.pre = avrcc[a]]

\* EspAvrcc::new(driver)
EspAvrcc_new(a) ==
    /\ ~avrcc[a].live
    /\ avrcc' = [avrcc EXCEPT ![a] = [NoAvrcc EXCEPT !.live = TRUE]]
    /\ lastAvrc' = AvrcReturned("new", a, ESP_OK, <<>>)
    /\ UNCHANGED <<CALLBACK, ctInit, ctCallback>>
    /\ UNCHANGED <<otaVars, loaderVars>>

\* EspAvrcc::initialize(&self, events_cb): each `?` returns early, leaving what
\* the earlier steps did.
initialize(a) ==
    /\ avrcc[a].live
    /\ LET set == Call("CALLBACK.set", "events_cb", CALLBACK_set_rc)
           init(rc) == Call("esp_avrc_ct_init", "none", rc)
           reg(rc) == Call("esp_avrc_ct_register_callback", "event_handler", rc)
           owner == [avrcc EXCEPT ![a].set = TRUE]
       IN
       IF set.rc # ESP_OK
       THEN /\ lastAvrc' = AvrcReturned("initialize", a, set.rc, <<set>>)
            /\ UNCHANGED <<CALLBACK, avrcc, ctInit, ctCallback>>
       ELSE /\ CALLBACK' = TRUE
            /\ \E rcInit \in {ESP_OK, ESP_FAIL} :
               IF rcInit # ESP_OK
               THEN /\ lastAvrc' = AvrcReturned("initialize", a, rcInit,
                                                <<set, init(rcInit)>>)
                    /\ avrcc' = owner
                    /\ UNCHANGED <<ctInit, ctCallback>>
               ELSE /\ ctInit' = TRUE
                    /\ \E rcReg \in {ESP_OK, ESP_FAIL} :
                       /\ lastAvrc' = AvrcReturned("initialize", a, rcReg,
                                        <<set, init(rcInit), reg(rcReg)>>)
                       /\ IF rcReg # ESP_OK
                          THEN /\ avrcc' = owner
                               /\ UNCHANGED ctCallback
                          ELSE /\ avrcc' = [owner EXCEPT ![a].initialized = TRUE]
                               /\ ctCallback' = TRUE
    /\ UNCHANGED <<otaVars, loaderVars>>

\* Drop for EspAvrcc: nothing unless `initialized`; each `.unwrap()` panics on
\* an error, which ends the drop there.
drop_avrcc(a) ==
    /\ avrcc[a].live
    /\ avrcc' = [avrcc EXCEPT ![a] = NoAvrcc]
    /\ IF ~avrcc[a].initialized
       THEN /\ lastAvrc' = AvrcReturned("drop", a, ESP_OK, <<>>)
            /\ UNCHANGED <<CALLBACK, ctInit, ctCallback>>
       ELSE \E rcReg \in {ESP_OK, ESP_FAIL} :
            LET unreg == Call("esp_avrc_ct_register_callback", NULL, rcReg) IN
            IF rcReg # ESP_OK
            THEN /\ lastAvrc' = AvrcReturned("drop", a, PANIC, <<unreg>>)
                 /\ UNCHANGED <<CALLBACK, ctInit, ctCallback>>
            ELSE /\ ctCallback' = FALSE
                 /\ \E rcDe \in {ESP_OK, ESP_FAIL} :
                    LET deinit == Call("esp_avrc_ct_deinit", "none", rcDe) IN
                    IF rcDe # ESP_OK
                    THEN /\ lastAvrc' = AvrcReturned("drop", a, PANIC,
                                                     <<unreg, deinit>>)
                         /\ UNCHANGED <<CALLBACK, ctInit>>
                    ELSE LET clear == Call("CALLBACK.clear", "none",
                                           CALLBACK_clear_rc)
                         IN
                         /\ ctInit' = FALSE
                         /\ CALLBACK' = FALSE
                         /\ lastAvrc' = AvrcReturned("drop", a,
                                          IF clear.rc = ESP_OK THEN ESP_OK
                                          ELSE PANIC,
                                          <<unreg, deinit, clear>>)
    /\ UNCHANGED <<otaVars, loaderVars>>

\* EspAvrcc::event_handler(event, param), called by the native stack while it
\* is the registered callback: a null param is ignored; otherwise the event is
\* converted and handed to CALLBACK.call, which runs the callback in the slot.
event_handler(event, param) ==
    /\ ctCallback
    /\ lastAvrc' =
          IF param.null
          THEN [NoAvrcCall EXCEPT !.op = "event_handler", !.event = event,
                                  !.param = param]
          ELSE LET e == AvrccEvent_from(event, param) IN
               [NoAvrcCall EXCEPT !.op = "event_handler", !.event = event,
                                  !.param = param, !.result = e,
                                  !.rc = IF e = Panicked THEN PANIC ELSE ESP_OK,
                                  !.delivered = (e # Panicked /\ CALLBACK)]
    /\ UNCHANGED <<CALLBACK, avrcc, ctInit, ctCallback>>
    /\ UNCHANGED <<otaVars, loaderVars>>

AvrcNext ==
    \/ \E a \in Avrccs :
          \/ EspAvrcc_new(a)
          \/ initialize(a)
          \/ drop_avrcc(a)
    \/ \E event \in Events : \E param \in Params(event) :
          event_handler(event, param)

AvrcInit == Init /\ ~factory /\ boot = "ota_0"

AvrcSpec == AvrcInit /\ [][AvrcNext]_vars

----------------------------------------------------------------------------
Next ==
    \E t \in Threads :
        \/ NewLock(t)
        \/ NewCheck(t)
        \/ NewStore(t)
        \/ NewReturn(t)
        \/ DropLock(t)
        \/ DropStore(t)
        \/ get_update_slot(t)
        \/ Unwind(t)
        \/ is_factory_reset_supported(t)
        \/ factory_reset(t)
        \/ mark_running_slot_invalid_and_reboot(t)
        \/ initiate_update(t)
        \/ \E n \in 0..MaxBuf : write(t, n)
        \/ flush(t)
        \/ complete(t)
        \/ abort(t)
        \/ drop_update(t)

Spec == Init /\ [][Next]_vars

\* One caller that runs every operation of the manager and of its session,
\* the slot queries and mark_running_slot_valid included.
Caller == CHOOSE t \in Threads : TRUE

CallerNext ==
    \/ NewLock(Caller)
    \/ NewCheck(Caller)
    \/ NewStore(Caller)
    \/ NewReturn(Caller)
    \/ DropLock(Caller)
    \/ DropStore(Caller)
    \/ get_boot_slot(Caller)
    \/ get_running_slot(Caller)
    \/ get_update_slot(Caller)
    \/ get_last_invalid_slot(Caller)
    \/ mark_running_slot_valid(Caller)
    \/ Unwind(Caller)
    \/ is_factory_reset_supported(Caller)
    \/ factory_reset(Caller)
    \/ mark_running_slot_invalid_and_reboot(Caller)
    \/ initiate_update(Caller)
    \/ \E n \in 0..MaxBuf : write(Caller, n)
    \/ flush(Caller)
    \/ complete(Caller)
    \/ abort(Caller)
    \/ drop_update(Caller)

CallerSpec == Init /\ [][CallerNext]_vars

----------------------------------------------------------------------------
\* Properties.

SessionOps == {"write", "flush", "complete", "abort"}
Open(s) == s.live /\ s.update_partition # NULL
Closed(s) == s.live /\ s.update_partition = NULL

\* C1: under every interleaving of new() and drop by the threads, at most one
\* EspOta is live, and TAKEN is true exactly when one live EspOta exists.
C1_OneLiveInstance ==
    /\ Cardinality(Live) <= 1
    /\ TAKEN <=> Cardinality(Live) = 1

\* A thread holds the manager while the other's racing new() has found the
\* gate taken.
C1_Witness ==
    \E t, u \in Threads : t # u /\ pc[t] = "holding" /\ pc[u] = "new_err"

\* C2: a new() called while a manager is live returns ESP_ERR_INVALID_STATE and
\* no manager; a drop of the manager leaves TAKEN false and the mutex free,
\* whatever was done with the manager before; and a new() called while no
\* manager is live succeeds (the steps of new() and drop, a restart of the
\* chip ending them all).
C2_GateStep ==
    ~Rebooted' =>
    \A t \in Threads :
        /\ (pc[t] = "new_locked" /\ pc'[t] # pc[t])
              => pc'[t] = (IF Live # {} THEN "new_err" ELSE "new_store")
        /\ (pc[t] = "new_err" /\ pc'[t] # pc[t])
              => /\ pc'[t] = "idle"
                 /\ last'.op = "new" /\ last'.rc = ESP_ERR_INVALID_STATE
        /\ (pc[t] = "new_store" /\ pc'[t] # pc[t]) => pc'[t] = "new_ok"
        /\ (pc[t] = "new_ok" /\ pc'[t] # pc[t])
              => /\ pc'[t] = "holding"
                 /\ last'.op = "new" /\ last'.rc = ESP_OK
        /\ (pc[t] = "drop_locked" /\ pc'[t] # pc[t])
              => pc'[t] = "idle" /\ ~TAKEN' /\ Live' = {} /\ t \notin mutex'

C2_GateReleased == [][C2_GateStep]_vars

\* A new() has succeeded after an earlier holder, which left a native handle
\* open behind it, was dropped.
C2_Witness ==
    last.op = "new" /\ last.rc = ESP_OK /\ otaOps # {}

\* C3: on a closed session write, flush, complete and abort fail with ESP_FAIL,
\* make no native call and leave the session as it is; a closed session stays
\* closed for as long as it lives.
C3_ClosedCall ==
    (last.op \in SessionOps /\ Closed(last.pre))
        => /\ last.rc = ESP_FAIL
           /\ last.calls = <<>>
           /\ session[last.t] = last.pre

C3_ClosedStep ==
    \A t \in Threads :
        (Closed(session[t]) /\ session'[t].live) => session'[t] = session[t]

C3_ClosedIsTerminal == []C3_ClosedCall /\ [][C3_ClosedStep]_vars

\* A complete() was refused on a session that an earlier call had closed.
C3_Witness ==
    last.op = "complete" /\ Closed(last.pre) /\ last.rc = ESP_FAIL

\* C4: a live session has update_partition and update_handle both set or both
\* cleared.
C4_PairInvariant ==
    \A t \in Threads :
        session[t].live =>
            \/ session[t].update_partition # NULL /\ session[t].update_handle # 0
            \/ session[t].update_partition = NULL /\ session[t].update_handle = 0

\* A session that was open with both fields set has been closed by abort().
C4_Witness ==
    /\ last.op = "abort" /\ last.rc = ESP_OK
    /\ last.pre.update_partition # NULL /\ last.pre.update_handle # 0
    /\ Closed(session[last.t]) /\ session[last.t].update_handle = 0

\* C5: when esp_ota_end succeeds and esp_ota_set_boot_partition fails,
\* complete() returns the second call's error and leaves the session closed.
C5_ClosedAfterSetBootFailure ==
    (/\ last.op = "complete"
     /\ Len(last.calls) = 2
     /\ last.calls[2].rc # ESP_OK)
        => /\ last.rc = last.calls[2].rc
           /\ Closed(session[last.t])
           /\ session[last.t].update_handle = 0

\* C6: when esp_ota_end fails, complete() leaves a session that refuses writes.
C6_NotWritableAfterEndFailure ==
    (/\ last.op = "complete"
     /\ Len(last.calls) = 1
     /\ last.calls[1].rc # ESP_OK)
        => ~check_write(session[last.t])

\* C7: after an open session is dropped, the native handle it began is no
\* longer open.
C7_DropReleasesHandle ==
    (last.op = "drop_update" /\ Open(last.pre))
        => last.pre.handle0 \notin otaOps

\* C8: after a successful complete() the boot partition is the session's
\* partition; after a successful abort() it is what it was when the session was
\* opened.
C8_BootAfterClose ==
    /\ (last.op = "complete" /\ last.rc = ESP_OK)
          => boot = last.pre.update_partition
    /\ (last.op = "abort" /\ last.rc = ESP_OK)
          => boot = last.pre.boot0

\* A complete() has moved the boot partition to the session's partition.
C8_Witness ==
    /\ last.op = "complete" /\ last.rc = ESP_OK
    /\ last.preBoot # last.pre.update_partition

\* C9: at most one session is live, and the thread that has it owns the
\* manager that holds the gate.
C9_OneSession ==
    /\ Cardinality({t \in Threads : session[t].live}) <= 1
    /\ \A t \in Threads :
          session[t].live => pc[t] = "holding" /\ TAKEN /\ Live = {t}

\* A session is live while the handle of an earlier session is still open.
C9_Witness ==
    \E t \in Threads :
        /\ session[t].live
        /\ \E h \in otaOps : h # session[t].update_handle

\* C10: without a factory partition factory_reset() returns
\* ESP_ERR_NOT_SUPPORTED, makes no native set-boot call and leaves the boot
\* partition alone; with one, and a set-boot call that succeeds, it returns Ok
\* and the boot partition is the factory partition.
C10_FactoryReset ==
    last.op = "factory_reset" =>
        /\ ~factory => /\ last.rc = ESP_ERR_NOT_SUPPORTED
                       /\ last.calls = <<>>
                       /\ boot = last.preBoot
        /\ (factory /\ last.calls # <<>> /\ last.calls[1].rc = ESP_OK)
              => last.rc = ESP_OK /\ boot = FactoryPart
        /\ factory => last.calls # <<>>

\* A factory_reset() has moved the boot partition to the factory partition.
C10_Witness ==
    /\ last.op = "factory_reset" /\ last.rc = ESP_OK
    /\ last.preBoot # FactoryPart /\ boot = FactoryPart

\* C11: is_factory_reset_supported() returns Ok(true) when a factory partition
\* exists and Ok(false), not an error, when none exists.
C11_SupportedIffFactory ==
    last.op = "is_factory_reset_supported" =>
        /\ last.rc = ESP_OK
        /\ last.val = (IF factory THEN "true" ELSE "false")

\* C12: when there is no next-update partition, get_update_slot() neither
\* fails nor panics.
C12_QueryWithoutUpdatePartition ==
    (last.op = "get_update_slot" /\ last.calls[1].rc = NULL)
        => last.rc = ESP_OK

\* C18: the state a slot query reports is decided by the native status query
\* alone: not-found gives Unknown, not-supported Factory, new and pending-verify
\* Unverified, valid Valid, invalid and aborted Invalid, undefined and every
\* other value Unknown; any other native error is returned as the error, with
\* no further native call.
C18_Table ==
    [ESP_OTA_IMG_NEW |-> "Unverified", ESP_OTA_IMG_PENDING_VERIFY |-> "Unverified",
     ESP_OTA_IMG_VALID |-> "Valid", ESP_OTA_IMG_INVALID |-> "Invalid",
     ESP_OTA_IMG_ABORTED |-> "Invalid", ESP_OTA_IMG_UNDEFINED |-> "Unknown",
     other |-> "Unknown"]

C18_StateMapping ==
    (last.op = "get_update_slot" /\ Len(last.calls) >= 2) =>
        LET q == last.calls[2] IN
        /\ q.fn = "esp_ota_get_state_partition"
        /\ q.rc \notin {ESP_OK, ESP_ERR_NOT_FOUND, ESP_ERR_NOT_SUPPORTED}
              => last.rc = q.rc /\ Len(last.calls) = 2
        /\ q.rc \in {ESP_OK, ESP_ERR_NOT_FOUND, ESP_ERR_NOT_SUPPORTED}
              => /\ Len(last.calls) = 3
                 /\ last.rc = last.calls[3].rc \/ last.calls[3].rc = ESP_ERR_NOT_FOUND
                 /\ last.rc = ESP_OK =>
                       last.val = (IF q.rc = ESP_ERR_NOT_FOUND THEN "Unknown"
                                   ELSE IF q.rc = ESP_ERR_NOT_SUPPORTED THEN "Factory"
                                   ELSE C18_Table[q.out])

\* A slot whose image the native side reports as aborted is reported Invalid.
C18_Witness ==
    /\ last.op = "get_update_slot" /\ last.rc = ESP_OK
    /\ last.calls[2].rc = ESP_OK /\ last.calls[2].out = "ESP_OTA_IMG_ABORTED"
    /\ last.val = "Invalid"

\* C13: an initiate_update() whose esp_ota_begin fails, as it does on a null
\* partition, returns that error, no session, and leaves the native handles as
\* they were; one whose esp_ota_begin succeeds returns an Open session holding
\* the partition passed to esp_ota_begin and the handle it opened.
C13_InitiateStep ==
    (last' # last /\ last'.op = "initiate_update") =>
        LET t == last'.t
            begin == last'.calls[1]
        IN
        /\ begin.fn = "esp_ota_begin"
        /\ last'.rc = begin.rc
        /\ begin.arg = NULL => begin.rc # ESP_OK
        /\ begin.rc # ESP_OK
              => /\ ~session'[t].live
                 /\ otaOps' = otaOps
        /\ begin.rc = ESP_OK
              => /\ Open(session'[t])
                 /\ session'[t].update_partition = begin.arg
                 /\ session'[t].update_handle \in otaOps' \ otaOps
                 /\ otaOps' = otaOps \cup {session'[t].update_handle}

C13_InitiateUpdate == [][C13_InitiateStep]_vars

\* An initiate_update() has failed on a null next-update partition while the
\* handle of an earlier session is still open.
C13_Witness ==
    /\ last.op = "initiate_update" /\ last.calls[1].arg = NULL
    /\ last.rc # ESP_OK /\ ~session[last.t].live /\ otaOps # {}

\* C17 as claimed: on an Open session a write of a non-empty buffer succeeds
\* and returns the length of the buffer.
C17_WriteAlwaysSucceeds ==
    (last.op = "write" /\ Open(last.pre) /\ last.arg > 0)
        => last.rc = ESP_OK /\ last.ret = last.arg

\* C17, amended: on an Open session write makes one esp_ota_write call on the
\* session's handle; if the call fails write returns its error, and if it
\* succeeds write returns exactly the length of the buffer.
C17_WriteResult ==
    (last.op = "write" /\ Open(last.pre)) =>
        /\ Len(last.calls) = 1
        /\ last.calls[1].fn = "esp_ota_write"
        /\ last.calls[1].arg = last.pre.update_handle
        /\ last.rc = last.calls[1].rc
        /\ last.rc = ESP_OK => last.ret = last.arg

\* A write of a non-empty buffer has returned the buffer's length.
C17_Witness ==
    /\ last.op = "write" /\ Open(last.pre) /\ last.arg > 0
    /\ last.rc = ESP_OK /\ last.ret = last.arg

\* C20: no native write, end or abort call is made on a handle on which an
\* esp_ota_end or esp_ota_abort has already succeeded.
C20_NoCallOnFinishedHandle ==
    (last.op \in {"write", "complete", "abort"} /\ last.calls # <<>>)
        => ~last.pre.ended

\* C19: mark_running_slot_invalid_and_reboot never returns normally: when the
\* native call restarts the chip it does not return, when the native call
\* returns success it panics, and whenever it returns to its caller the value
\* is the native call's error, never a success.
C19_NeverReturnsSuccess ==
    last.op = "mark_running_slot_invalid_and_reboot" =>
        LET native == last.calls[1].rc IN
        /\ last.calls[1].fn = "esp_ota_mark_app_invalid_rollback_and_reboot"
        /\ native = REBOOT => Rebooted
        /\ native = ESP_OK => last.rc = PANIC
        /\ last.rc \notin {REBOOT, PANIC}
              => last.rc = native /\ last.rc # ESP_OK

\* The call has returned to a caller that still holds the manager.
C19_Witness ==
    /\ last.op = "mark_running_slot_invalid_and_reboot"
    /\ last.rc = "ESP_ERR_OTA_ROLLBACK_FAILED"
    /\ pc[last.t] = "holding"

\* The bytes get_info needs: image header, segment header and app descriptor.
Required ==
    size_of_esp_image_header_t + size_of_esp_image_segment_header_t
    + size_of_esp_app_desc_t

\* C14: is_loaded() is false while the total of the bytes supplied is below
\* the required size and true once the total has reached it; load returns
\* Loaded exactly when is_loaded() holds after the call; and a load on a loaded
\* loader leaves the buffer unchanged and returns Loaded.
C14_LoadedOnceRequired ==
    /\ is_loaded(loader) <=> Sum(chunks) >= Required
    /\ lastLoad.op = "load" =>
          /\ lastLoad.result \in {"Loaded", "LoadMore"}
          /\ lastLoad.result = "Loaded" <=> is_loaded(loader)
          /\ is_loaded(lastLoad.pre)
                => loader = lastLoad.pre /\ lastLoad.result = "Loaded"

\* A non-empty chunk was given to a loaded loader that still had room, and
\* nothing of it was taken.
C14_Witness ==
    /\ lastLoad.op = "load" /\ lastLoad.n > 0
    /\ is_loaded(lastLoad.pre) /\ Len(lastLoad.pre) < capacity
    /\ loader = lastLoad.pre /\ lastLoad.result = "Loaded"

C21_CompleteOrder ==
    (last.op = "complete" /\ Open(last.pre)) =>
        LET c == last.calls
            s == session[last.t]
        IN
        /\ Len(c) \in {1, 2}
        /\ c[1].fn = "esp_ota_end" /\ c[1].arg = last.pre.update_handle
        /\ Len(c) = 2 <=> c[1].rc = ESP_OK
        /\ Len(c) = 1 => boot = last.preBoot /\ last.rc = c[1].rc
        /\ Len(c) = 2 => /\ c[2].fn = "esp_ota_set_boot_partition"
                         /\ c[2].arg = last.pre.update_partition
                         /\ last.rc = c[2].rc
        /\ IF Len(c) = 2 /\ c[2].rc = ESP_OK
           THEN s.update_partition = NULL /\ s.update_handle = 0
           ELSE /\ s.update_partition = last.pre.update_partition
                /\ s.update_handle = last.pre.update_handle

\* esp_ota_end has failed in a complete() for a partition other than the boot
\* partition: no set-boot call was made and the boot partition is as before.
C21_Witness ==
    /\ last.op = "complete" /\ Open(last.pre)
    /\ Len(last.calls) = 1 /\ last.rc # ESP_OK
    /\ last.pre.update_partition # last.preBoot
    /\ boot = last.preBoot

\* C24: a new() that finds the gate taken changes nothing: TAKEN stays true,
\* its caller gets no manager (so no drop runs for the attempt), and the
\* holder stays the only owner until its own drop (or a restart of the chip)
\* releases the gate.
C24_AfterFailedNew ==
    (last.op = "new" /\ last.rc = ESP_ERR_INVALID_STATE)
        => TAKEN /\ Cardinality(Live) = 1 /\ last.t \notin Live

C24_FailedNewStep ==
    ~Rebooted' =>
    /\ \A t \in Threads :
          /\ (pc[t] = "new_locked" /\ pc'[t] = "new_err")
                => TAKEN /\ TAKEN' /\ Live' = Live /\ t \notin Live
          /\ pc[t] = "new_err"
                => /\ TAKEN /\ TAKEN' /\ Live' = Live
                   /\ pc'[t] \in {"new_err", "idle"}
          /\ (pc[t] = "new_err" /\ pc'[t] # pc[t])
                => <<session, boot, otaOps>>' = <<session, boot, otaOps>>
    /\ (TAKEN /\ ~TAKEN')
          => \E u \in Live : pc[u] = "drop_locked" /\ pc'[u] = "idle"

C24_FailedNewFrame == []C24_AfterFailedNew /\ [][C24_FailedNewStep]_vars

\* A new() has failed while the other thread holds the manager with a session
\* open on it.
C24_Witness ==
    /\ last.op = "new" /\ last.rc = ESP_ERR_INVALID_STATE
    /\ \E u \in Threads : u # last.t /\ pc[u] = "holding" /\ Open(session[u])

\* The step is a complete() or factory_reset() that returned Ok after its
\* esp_ota_set_boot_partition call, made last, succeeded for the partition
\* that is now the boot partition.
SetBootStep ==
    LET c == last'.calls IN
    /\ last'.op \in {"complete", "factory_reset"}
    /\ last'.rc = ESP_OK
    /\ last'.preBoot = boot
    /\ c # <<>>
    /\ c[Len(c)].fn = "esp_ota_set_boot_partition"
    /\ c[Len(c)].rc = ESP_OK
    /\ c[Len(c)].arg = boot'

\* The operations C26 lists as leaving the boot partition alone.
FrameOps ==
    {"new", "drop", "get_boot_slot", "get_running_slot", "get_update_slot",
     "get_last_invalid_slot", "is_factory_reset_supported", "initiate_update",
     "write", "flush", "abort", "mark_running_slot_valid", "drop_update"}

\* The listed operations leave the boot partition unchanged.
FrameStep == (last' # last /\ last'.op \in FrameOps) => boot' = boot

\* C26 as claimed: the boot partition changes only in a complete() or a
\* factory_reset() whose set-boot call succeeds, and the listed operations
\* leave it unchanged.
C26_BootOnlyBySetBoot ==
    [][(boot' # boot => SetBootStep) /\ FrameStep]_vars

\* C26, amended: the boot partition changes only in a complete() or a
\* factory_reset() whose set-boot call succeeds, or when
\* mark_running_slot_invalid_and_reboot rolls back and restarts the chip; the
\* listed operations leave it unchanged.
C26_BootStep ==
    /\ boot' # boot
          => \/ SetBootStep
             \/ /\ last'.op = "mark_running_slot_invalid_and_reboot"
                /\ last'.rc = REBOOT
                /\ Rebooted'
    /\ FrameStep

C26_BootFrame == [][C26_BootStep]_vars

\* A slot query has returned after a factory_reset() moved the boot partition
\* to the factory partition, and the boot partition is still that.
C26_Witness ==
    /\ last.op = "get_boot_slot" /\ last.rc = ESP_OK
    /\ boot = FactoryPart /\ last.preBoot = FactoryPart
    /\ last.calls[1].arg = "none" /\ last.calls[1].rc = FactoryPart

\* C27: a write() or abort() whose native call fails returns the native error
\* and leaves the session open with its partition and handle as they were, so
\* that a later write, complete or abort is not refused by check_write; a
\* flush() on an open session makes no native call and changes nothing.
C27_FailureFrame ==
    /\ (last.op \in {"write", "abort"} /\ Open(last.pre)
        /\ last.calls # <<>> /\ last.calls[1].rc # ESP_OK)
          => /\ last.rc = last.calls[1].rc
             /\ Len(last.calls) = 1
             /\ Open(session[last.t])
             /\ session[last.t].update_partition = last.pre.update_partition
             /\ session[last.t].update_handle = last.pre.update_handle
             /\ boot = last.preBoot
    /\ (last.op = "flush" /\ Open(last.pre))
          => /\ last.rc = ESP_OK
             /\ last.calls = <<>>
             /\ session[last.t] = last.pre
             /\ boot = last.preBoot

\* A write of a non-empty buffer has failed in esp_ota_write on a handle that
\* is still open, and the session is as it was.
C27_Witness ==
    /\ last.op = "write" /\ last.arg > 0 /\ Open(last.pre)
    /\ last.rc = "ESP_ERR_FLASH_OP_FAIL"
    /\ session[last.t] = last.pre
    /\ last.pre.update_handle \in otaOps

\* C25: the loader's buffer is a prefix of the concatenation of the chunks
\* supplied so far, in call order: its i-th byte is the i-th byte of the
\* stream, and the descriptor bytes get_info reads are the bytes of the stream
\* at the descriptor's place.
C25_BufferIsPrefix ==
    /\ Len(loader) <= Sum(chunks)
    /\ \A i \in 1..Len(loader) : loader[i] = i
    /\ (lastLoad.op = "get_info" /\ lastLoad.result = ESP_OK)
          => \A i \in 1..Len(lastLoad.info) :
                lastLoad.info[i] = size_of_esp_image_header_t
                                   + size_of_esp_image_segment_header_t + i

\* get_info has read the descriptor from a buffer that three chunks filled,
\* the last of them cut at the capacity.
C25_Witness ==
    /\ lastLoad.op = "get_info" /\ lastLoad.result = ESP_OK
    /\ Len(chunks) = 3 /\ \A k \in 1..3 : chunks[k] > 0
    /\ chunks[1] + chunks[2] < Required
    /\ Sum(chunks) > capacity /\ Len(loader) = capacity

\* The variants of AvrccEvent.
AvrccEventTags ==
    {"Connected", "Disconnected", "Passthrough", "Attribute", "PlayStatus",
     "Notification", "RemoteFeatures", "Capabilities", "Volume", "Other"}

\* C22: every event delivered to event_handler with a non-null param is
\* translated to a variant of AvrccEvent and never panics: an event code the
\* match does not list gives Other, a listed code gives its own variant, also
\* when a key code, response code, notification id, playback status or
\* battery status is none of the codes its enum lists.
C22_TotalTranslation ==
    (lastAvrc.op = "event_handler" /\ ~lastAvrc.param.null)
        => /\ lastAvrc.rc # PANIC
           /\ lastAvrc.result.tag \in AvrccEventTags
           /\ lastAvrc.result.tag = "Other" <=> lastAvrc.event = "unmapped"

\* C23: after the drop of an EspAvrcc whose initialize() occupied CALLBACK and
\* then failed, CALLBACK is free; and a drop calls the native unregistration,
\* the deinitialisation and CALLBACK.clear exactly when initialize() had
\* succeeded, leaving the slot free and the controller deinitialised.
C23_ReleasedOnDrop ==
    lastAvrc.op = "drop" =>
        /\ (lastAvrc.pre.set /\ ~lastAvrc.pre.initialized) => ~CALLBACK
        /\ lastAvrc.calls # <<>> <=> lastAvrc.pre.initialized
        /\ (lastAvrc.pre.initialized /\ lastAvrc.rc = ESP_OK)
              => ~CALLBACK /\ ~ctInit /\ ~ctCallback

=============================================================================
